---- MODULE Spec2Model ----
(***************************************************************************)
(* redis_path_query.py: for each path of a list, hash the path with       *)
(* SHA-256, GET the digest from a Redis store, print what was found, and, *)
(* when something was found, GET "fileHashToPathset:" + digest and print  *)
(* its UTF-8 decoding.                                                     *)
(*                                                                         *)
(* Non-ASCII characters of the source's path literals are written \uXXXX. *)
(* Byte strings (Redis values) are sequences of integers 0..255.           *)
(***************************************************************************)
EXTENDS Integers, Sequences, FiniteSets, TLC

VARIABLES
  paths,       \* the paths query_redis is called with, in call order
  store,       \* the Redis database: a function from the keys that exist to bytes
  i,           \* index in paths of the current (or next) query_redis call
  pc,          \* control position of the run
  hashed_key,  \* local of query_redis
  file_info,   \* local of query_redis
  file_hash,   \* local of query_redis
  out,         \* the lines printed to standard output, oldest first
  ops,         \* the commands sent to the store, oldest first
  raised,      \* the exception that ended the run, "none" if none did
  exitStatus   \* the process's exit status, -1 while it runs

vars == <<paths, store, i, pc, hashed_key, file_info, file_hash, out, ops,
          raised, exitStatus>>

\* ---------------------------------------------------------------- bounds
\* A store holds at most MaxEntries keys.
MaxEntries == 2

\* A caller other than __main__ makes at most MaxCalls calls of query_redis.
MaxCalls == 2

\* ----------------------------------------------------------- the inputs
SamplePath1 ==
  "/media/mirror2/music/\\u7ecf\\u5178\\u8001\\u6b4c/\\u534e\\u8bed\\u7fa4\\u661f/\\u90d1\\u79c0\\u6587/\\u90d1\\u79c0\\u6587/\\u3010\\u8f66\\u8f7dCD\\u5b9a\\u5236\\u3001\\u81ea\\u9009\\u6b4c\\u66f2\\u3001\\u81ea\\u6392\\u66f2\\u76ee\\u3011\\u90d1\\u79c0\\u6587\\u300a2002 \\u6211\\u5de6\\u773c\\u89c1\\u5230\\u9b3c\\u7535\\u5f71\\u539f\\u58f0\\u789f\\u300b[WAV \\u5206\\u8f68]/\\u90d1\\u79c0\\u6587 - \\u6211\\u5de6\\u773c\\u89c1\\u5230\\u9b3c\\u7535\\u5f71\\u539f\\u58f0CD.wav"

SamplePath2 ==
  "/media/av91/av/\\u65ec\\u679c/Pizzaboy and Hubby Creampied Me Successively.vd.1080.mp4.bak"

SamplePath3 ==
  "/media/av91/av/\\u65ec\\u679c/Pizzaboy and Hubby Creampied Me Successively.vd.1080.mp4"

SamplePath4 ==
  "/media/secure_bcache/av/onlyfans/OnlyFans.2022.Musclebarbie.Primal.Instincts.Anal.XXX.1080p.HEVC.x265.PRT[XvX]/OnlyFans.2022.Musclebarbie.Primal.Instincts.Anal.XXX.1080p.HEVC.x265.PRT.mkv"

SamplePath5 ==
  "/media/secure_bcache/av/onlyfans/OnlyFans.22.11.10.Lani.Rails.Aka.HotSouthernFreedom.A27hopsonxxx.XXX.720p.HEVC.x265.PRT[XvX]/OnlyFans.22.11.10.Lani.Rails.Aka.HotSouthernFreedom.A27hopsonxxx.XXX.720p.HEVC.x265.PRT.mkv"

\* The fixed list of __main__.
SamplePaths ==
  <<SamplePath1, SamplePath2, SamplePath3, SamplePath4, SamplePath5>>

\* Paths a caller of query_redis other than __main__ passes; some twice.
TestPaths == {"/a/b", "/x"}

\* hashlib.sha256(s.encode()).hexdigest() of the paths above.
Sha256Table ==
  SamplePath1 :> "2f421495bb7a662b47b90bcd2d4b0531f263260e6e6f0e034e325d8fc537cb71" @@
  SamplePath2 :> "52abf006aec6d46b9d7c7f153637fbcf724699ef94624ea7a6f7a0e2651587e0" @@
  SamplePath3 :> "85d3332a6f2cd970142bea73e24fc4c30c90594fb027b6add1cc19807bffa089" @@
  SamplePath4 :> "eb6c2345194ae067770b3ee7c4d40a5f51132026f9e9724b43bb8f51d70951e9" @@
  SamplePath5 :> "779986cc1274683748e7e4f9d858d058ae0ffcf657cc58787b26f8582038dd2c" @@
  "/a/b" :> "662b7b62a798bb2d53e67cad9778e12e48297c79eae98d3aae7197be825d768f" @@
  "/x" :> "b3d1db318671a024a7e4b433389f8820d6ca466e2cf700afc29f37ed64f2fa0d"

\* The values a key of the store may hold: b"", b"V", b"\xc3\xa9" (U+00E9),
\* and b"\xff", which is not UTF-8.
StoredValues == {<<>>, <<86>>, <<195, 169>>, <<255>>}

\* ------------------------------------------------- library: hashlib, bytes
\* hashlib.sha256(): a hasher that has been fed nothing.
Sha256New == ""

\* hasher.update(s.encode()): the hasher has been fed s after what it held.
Sha256Update(h, s) == h \o s

\* hasher.hexdigest(): the digest of everything the hasher has been fed.
Sha256HexDigest(h) == Sha256Table[h]

\* bytes.decode('utf-8') from position n of b, strict: the code points, or
\* ok = FALSE where Python raises UnicodeDecodeError.
RECURSIVE Utf8DecodeFrom(_, _)
Utf8DecodeFrom(b, n) ==
  IF n > Len(b) THEN [ok |-> TRUE, text |-> <<>>]
  ELSE
    LET c    == b[n]
        need == IF c < 128 THEN 0
                ELSE IF c \in 194..223 THEN 1
                ELSE IF c \in 224..239 THEN 2
                ELSE IF c \in 240..244 THEN 3
                ELSE -1
        lo2  == IF c = 224 THEN 160 ELSE IF c = 240 THEN 144 ELSE 128
        hi2  == IF c = 237 THEN 159 ELSE IF c = 244 THEN 143 ELSE 191
        valid == /\ need >= 0
                 /\ n + need <= Len(b)
                 /\ \A j \in 1..need :
                      b[n + j] \in (IF j = 1 THEN lo2..hi2 ELSE 128..191)
        cp   == IF need = 0 THEN c
                ELSE IF need = 1 THEN (c - 192) * 64 + (b[n + 1] - 128)
                ELSE IF need = 2
                  THEN ((c - 224) * 64 + (b[n + 1] - 128)) * 64 + (b[n + 2] - 128)
                ELSE (((c - 240) * 64 + (b[n + 1] - 128)) * 64
                        + (b[n + 2] - 128)) * 64 + (b[n + 3] - 128)
        rest == Utf8DecodeFrom(b, n + need + 1)
    IN  IF ~valid THEN [ok |-> FALSE, text |-> <<>>]
        ELSE IF rest.ok THEN [ok |-> TRUE, text |-> <<cp>> \o rest.text]
        ELSE rest

\* file_hash.decode('utf-8')
Utf8Decode(b) == Utf8DecodeFrom(b, 1)

\* ------------------------------------------------------ library: redis-py
\* What r.get returns: None, or the bytes stored.
None == [nil |-> TRUE, val |-> <<>>]
Some(v) == [nil |-> FALSE, val |-> v]

\* A GET that deletes the key it read (GETDEL).
redis_getdel(s, k) ==
  [cmd   |-> "GETDEL",
   reply |-> IF k \in DOMAIN s THEN Some(s[k]) ELSE None,
   store |-> [x \in DOMAIN s \ {k} |-> s[x]]]

\* r.get(k) against store s: the command sent, its reply and the store after it.
redis_get(s, k) ==
  [cmd   |-> "GET",
   reply |-> IF k \in DOMAIN s THEN Some(s[k]) ELSE None,
   store |-> s]

\* ------------------------------------------------------------ the program
\* A printed line: the call that printed it, which print statement, and the
\* values it interpolates.
Line(n, kind, path, key, data) ==
  [inv |-> n, kind |-> kind, path |-> path, key |-> key, data |-> data]

GeneratedLines == {n \in 1..Len(out) : out[n].kind = "Generated"}

\* hexdigest() of a hasher fed several paths in a row: the digests of the
\* runs of paths that successive calls make.
Sha256TableOfRuns ==
  (SamplePath1 \o SamplePath2) :> "458f30c483a22ac1157f4d762fd5b7d425cdb74050537b6b015f5011dbba0b78" @@
  (SamplePath1 \o SamplePath2 \o SamplePath3) :> "7c5d1cc627be13be21e85faa1f29b5ed78bd2326ed67d95fdce8f5110562e33f" @@
  (SamplePath1 \o SamplePath2 \o SamplePath3 \o SamplePath4) :> "2c93b04bf10834663fdf5bfbfff8ae62e20cfc68a90016bb4b4dd71db495d26b" @@
  (SamplePath1 \o SamplePath2 \o SamplePath3 \o SamplePath4 \o SamplePath5) :> "943c6463de4748fc988a095ce06b7377e7b091e7f8280d747b5351fe7e959819" @@
  "/a/b/a/b" :> "0116b07a56a906b784ec7906c5ecc9cb0a90786382da0dc108c9cc4f860373e8" @@
  "/a/b/x" :> "f4625028d158c2316418fbe119c84ad569eda45786ca39cb96161d71750aa770" @@
  "/x/a/b" :> "08fab95f8e1bcae8d08238b85038e14d9af8c29804030fe6d1c5b9a5c725ff6b" @@
  "/x/x" :> "6cca935828f5d8b9a0cabdbdf3cab0d4cb174b9c08e0439615e380ccd210e9c2" @@
  "/a/b/a/b/a/b" :> "a181d58d3afaea0dfb461c057fe9cf4a9bbc42398bb3c2df05a419f2a0bfb5a4" @@
  "/a/b/a/b/x" :> "161d3307ea80fcfdd4c5b524802c1c98da7667a4f19a4bde3eae4cfc53c50b48" @@
  "/a/b/x/a/b" :> "3cbbd0995aa2e900129a6b7174f6c5b7be6b163d4032b95d92ad429ab4a15806" @@
  "/a/b/x/x" :> "687e4d9ed3da83510910d42b3c3fd6b9e5235d57568ebac1c8b901a2feb3b037" @@
  "/x/a/b/a/b" :> "515c017a791968935227f6dcf3e518135b2aa3acf6840519490b0f5fb05a58a3" @@
  "/x/a/b/x" :> "33340da5bb75e448115480c8fbf269ff5fccf75f000192b5ca5003872f028adf" @@
  "/x/x/a/b" :> "fb7f5fec677ad80926895e8bbf50a1f1c1c70112da86bcde689e2439a5070aca" @@
  "/x/x/x" :> "65c67612058d5577ffc3bbed7e53710c692ac0293974ccc15c136c029e913860"

\* What one hasher shared by all calls has been fed after the first n lines
\* of output.
RECURSIVE FedBefore(_)
FedBefore(n) ==
  IF n = 0 THEN Sha256New
  ELSE IF out[n].kind = "Generated"
    THEN Sha256Update(FedBefore(n - 1), out[n].path)
    ELSE FedBefore(n - 1)

\* A generate_hash whose hasher is created once and shared by all calls, so
\* that update() adds to what earlier calls fed it.
generate_hash_shared(s) ==
  LET fed == Sha256Update(FedBefore(Len(out)), s)
  IN  IF fed \in DOMAIN Sha256Table THEN Sha256Table[fed]
      ELSE Sha256TableOfRuns[fed]

\* generate_hash(s): the value returned.
generate_hash(s) == Sha256HexDigest(Sha256Update(Sha256New, s))

\* "fileHashToPathset:" + hashed_key, without the prefix.
SecondaryKeyBare(k) == k

\* "fileHashToPathset:" + hashed_key
SecondaryKey(k) == "fileHashToPathset:" \o k

\* Truth value that takes every reply for found.
TruthyAlways(r) == TRUE

\* Python's truth value of what r.get returned: None and b"" are false.
Truthy(r) == ~r.nil /\ Len(r.val) > 0

\* An exception handler that swallows the error and goes on.
AfterRaiseSwallowed(e) == [pc |-> "return", raised |-> "none", exitStatus |-> -1]

\* No try/except anywhere: an exception leaves query_redis and __main__, and
\* the interpreter exits with status 1.
AfterRaise(e) == [pc |-> "exited", raised |-> e, exitStatus |-> 1]

\* A loop step that skips the entry after the one just done.
NextCallSkipping(k) == k + 2

\* __main__ calls query_redis on the entries one after the other.
NextCall(k) == k + 1

\* ------------------------------------------------------------------ Init
CallLists ==
  {SamplePaths} \cup UNION {[1..n -> TestPaths] : n \in 1..MaxCalls}

KeysOf(ps) ==
  UNION {{Sha256Table[ps[k]], "fileHashToPathset:" \o Sha256Table[ps[k]]} :
           k \in 1..Len(ps)}

\* The store is populated by an external producer before the run.
Stores(K) ==
  UNION {[D -> StoredValues] :
           D \in {S \in SUBSET K : Cardinality(S) <= MaxEntries}}

Init ==
  /\ paths \in CallLists
  /\ store \in Stores(KeysOf(paths))
  /\ i = 1
  /\ pc = "main"
  /\ hashed_key = ""
  /\ file_info = None
  /\ file_hash = None
  /\ out = <<>>
  /\ ops = <<>>
  /\ raised = "none"
  /\ exitStatus = -1

\* --------------------------------------------------------------- actions
Raise(e) ==
  /\ pc' = AfterRaise(e).pc
  /\ raised' = AfterRaise(e).raised
  /\ exitStatus' = AfterRaise(e).exitStatus

\* __main__ calls query_redis(paths[i]); redis.Redis(...) builds the client
\* and sends nothing.
Call ==
  /\ pc = "main"
  /\ i <= Len(paths)
  /\ pc' = "hash"
  /\ UNCHANGED <<paths, store, i, hashed_key, file_info, file_hash, out, ops,
                 raised, exitStatus>>

\* hashed_key = generate_hash(path), which prints the digest.
GenerateHash ==
  /\ pc = "hash"
  /\ hashed_key' = generate_hash(paths[i])
  /\ out' = Append(out, Line(i, "Generated", paths[i], hashed_key', <<>>))
  /\ pc' = "get1"
  /\ UNCHANGED <<paths, store, i, file_info, file_hash, ops, raised,
                 exitStatus>>

\* One r.get(key): the store is reachable (up) or the client raises
\* ConnectionError.
Get(key, up) ==
  LET r == redis_get(store, key)
  IN  /\ ops' = Append(ops, [inv |-> i, cmd |-> r.cmd, key |-> key, ok |-> up,
                             reply |-> IF up THEN r.reply ELSE None])
      /\ store' = IF up THEN r.store ELSE store

\* file_info = r.get(hashed_key)
GetFileInfo ==
  /\ pc = "get1"
  /\ \E up \in BOOLEAN :
       /\ Get(hashed_key, up)
       /\ IF up
            THEN /\ file_info' = redis_get(store, hashed_key).reply
                 /\ pc' = "branch1"
                 /\ UNCHANGED <<raised, exitStatus>>
            ELSE /\ Raise("ConnectionError")
                 /\ UNCHANGED file_info
  /\ UNCHANGED <<paths, i, hashed_key, file_hash, out>>

\* if file_info: print "Data found for ..."
ReportData ==
  /\ pc = "branch1"
  /\ Truthy(file_info)
  /\ out' = Append(out, Line(i, "DataFound", paths[i], "", file_info.val))
  /\ pc' = "get2"
  /\ UNCHANGED <<paths, store, i, hashed_key, file_info, file_hash, ops,
                 raised, exitStatus>>

\* else: print "No data found for ..."
ReportNoData ==
  /\ pc = "branch1"
  /\ ~Truthy(file_info)
  /\ out' = Append(out, Line(i, "NoData", paths[i], "", <<>>))
  /\ pc' = "return"
  /\ UNCHANGED <<paths, store, i, hashed_key, file_info, file_hash, ops,
                 raised, exitStatus>>

\* file_hash = r.get("fileHashToPathset:" + hashed_key)
GetFileHash ==
  /\ pc = "get2"
  /\ \E up \in BOOLEAN :
       /\ Get(SecondaryKey(hashed_key), up)
       /\ IF up
            THEN /\ file_hash' = redis_get(store, SecondaryKey(hashed_key)).reply
                 /\ pc' = "branch2"
                 /\ UNCHANGED <<raised, exitStatus>>
            ELSE /\ Raise("ConnectionError")
                 /\ UNCHANGED file_hash
  /\ UNCHANGED <<paths, i, hashed_key, file_info, out>>

\* if file_hash: print "File hash for ...: " + file_hash.decode('utf-8')
ReportFileHash ==
  /\ pc = "branch2"
  /\ Truthy(file_hash)
  /\ LET d == Utf8Decode(file_hash.val)
     IN  IF d.ok
           THEN /\ out' = Append(out, Line(i, "FileHash", paths[i], "", d.text))
                /\ pc' = "return"
                /\ UNCHANGED <<raised, exitStatus>>
           ELSE /\ Raise("UnicodeDecodeError")
                /\ UNCHANGED out
  /\ UNCHANGED <<paths, store, i, hashed_key, file_info, file_hash, ops>>

\* else: print "No file hash found for ..."
ReportNoFileHash ==
  /\ pc = "branch2"
  /\ ~Truthy(file_hash)
  /\ out' = Append(out, Line(i, "NoFileHash", paths[i], "", <<>>))
  /\ pc' = "return"
  /\ UNCHANGED <<paths, store, i, hashed_key, file_info, file_hash, ops,
                 raised, exitStatus>>

\* query_redis returns; its locals are gone; __main__ goes on to the next call.
Return ==
  /\ pc = "return"
  /\ i' = NextCall(i)
  /\ pc' = "main"
  /\ hashed_key' = ""
  /\ file_info' = None
  /\ file_hash' = None
  /\ UNCHANGED <<paths, store, out, ops, raised, exitStatus>>

\* The last call has returned: the interpreter exits with status 0.
Exit ==
  /\ pc = "main"
  /\ i > Len(paths)
  /\ pc' = "exited"
  /\ exitStatus' = 0
  /\ UNCHANGED <<paths, store, i, hashed_key, file_info, file_hash, out, ops,
                 raised>>

Next ==
  \/ Call
  \/ GenerateHash
  \/ GetFileInfo
  \/ ReportData
  \/ ReportNoData
  \/ GetFileHash
  \/ ReportFileHash
  \/ ReportNoFileHash
  \/ Return
  \/ Exit

Spec == Init /\ [][Next]_vars

\* The interpreter keeps executing the single thread until it exits.
FairSpec == Spec /\ WF_vars(Next)

TypeOK ==
  /\ i \in 1..(Len(paths) + 1)
  /\ pc \in {"main", "hash", "get1", "branch1", "get2", "branch2", "return",
             "exited"}
  /\ raised \in {"none", "ConnectionError", "UnicodeDecodeError"}
  /\ exitStatus \in {-1, 0, 1}

\* ------------------------------------------------- vocabulary of the claims
\* The keys the k-th call is to read, computed by the library alone.
PrimaryKeyOf(k) == Sha256Table[paths[k]]
SecondaryKeyOf(k) == "fileHashToPathset:" \o Sha256Table[paths[k]]

Calls == 1..Len(paths)
LinesOf(k) == SelectSeq(out, LAMBDA l : l.inv = k)
OpsOf(k) == SelectSeq(ops, LAMBDA o : o.inv = k)
HasLine(k, kind) == \E n \in 1..Len(out) : out[n].inv = k /\ out[n].kind = kind

\* A line stripped of the call that printed it; likewise a command.
Shown(l) == [kind |-> l.kind, path |-> l.path, key |-> l.key, data |-> l.data]
Sent(o) == [cmd |-> o.cmd, key |-> o.key, ok |-> o.ok, reply |-> o.reply]
ShownOf(k) == [n \in 1..Len(LinesOf(k)) |-> Shown(LinesOf(k)[n])]
SentOf(k) == [n \in 1..Len(OpsOf(k)) |-> Sent(OpsOf(k)[n])]

\* The k-th call has returned to its caller.
Returned(k) == k < i \/ (k = i /\ pc = "return")
\* The k-th call is past its first r.get.
PastFirstRead(k) ==
  k < i \/ (k = i /\ pc \in {"branch1", "get2", "branch2", "return", "exited"})
\* The k-th call has printed what its first read found.
PrimaryReported(k) == HasLine(k, "DataFound") \/ HasLine(k, "NoData")
SecondaryReported(k) == HasLine(k, "FileHash") \/ HasLine(k, "NoFileHash")
Decodable(b) == Utf8Decode(b).ok

\* C1: if the store maps the key of path p to V, the primary read of
\* query_redis(p) returns V and the call prints a "Data found for p" line
\* that contains V.
C1_StoredValueIsReportedFound ==
  \A k \in Calls :
    PrimaryKeyOf(k) \in DOMAIN store =>
      /\ \A n \in 1..Len(ops) :
           (ops[n].inv = k /\ ops[n].key = PrimaryKeyOf(k) /\ ops[n].ok)
             => ops[n].reply = Some(store[PrimaryKeyOf(k)])
      /\ PrimaryReported(k) =>
           \E n \in 1..Len(out) :
             out[n] = Line(k, "DataFound", paths[k], "", store[PrimaryKeyOf(k)])

\* C2: if the key of path p is absent from the store, query_redis(p) gets an
\* absent result, prints "No data found" for p, prints no "Data found" and no
\* file-hash line, and returns normally.
C2_AbsentKeyReportsNoData ==
  \A k \in Calls :
    PrimaryKeyOf(k) \notin DOMAIN store =>
      /\ \A n \in 1..Len(ops) :
           (ops[n].inv = k /\ ops[n].ok)
             => ops[n].key = PrimaryKeyOf(k) /\ ops[n].reply = None
      /\ ~HasLine(k, "DataFound")
      /\ ~HasLine(k, "FileHash")
      /\ ~HasLine(k, "NoFileHash")
      /\ (/\ \E n \in 1..Len(ops) : ops[n].inv = k /\ ops[n].ok
          /\ ~(i = k /\ pc = "branch1"))
           => /\ Returned(k)
              /\ ShownOf(k)[Len(ShownOf(k))]
                   = [kind |-> "NoData", path |-> paths[k], key |-> "",
                      data |-> <<>>]
              /\ Len(LinesOf(k)) = 2

C2_Witness ==
  \E k \in Calls :
    /\ PrimaryKeyOf(k) \notin DOMAIN store
    /\ Returned(k)
    /\ HasLine(k, "NoData")

\* C3: with the primary key present and the secondary key absent,
\* query_redis(p) prints the primary data and then "No file hash found", in
\* that order, and no "No data found" line.
C3_DataThenNoFileHash ==
  \A k \in Calls :
    (PrimaryKeyOf(k) \in DOMAIN store /\ SecondaryKeyOf(k) \notin DOMAIN store)
      => /\ ~HasLine(k, "NoData")
         /\ Returned(k) =>
              /\ Len(LinesOf(k)) = 3
              /\ LinesOf(k)[2]
                   = Line(k, "DataFound", paths[k], "", store[PrimaryKeyOf(k)])
              /\ LinesOf(k)[3] = Line(k, "NoFileHash", paths[k], "", <<>>)

\* C4: found / not found depends on key existence only: a stored value, the
\* empty one included, is reported found whenever its key exists, "No data
\* found" is printed only when the primary key is absent, and "No file hash
\* found" only when the secondary key is absent.
C4_OutcomeByKeyExistence ==
  \A k \in Calls :
    /\ (PrimaryReported(k) /\ PrimaryKeyOf(k) \in DOMAIN store)
         => HasLine(k, "DataFound")
    /\ HasLine(k, "NoData") => PrimaryKeyOf(k) \notin DOMAIN store
    /\ HasLine(k, "NoFileHash") => SecondaryKeyOf(k) \notin DOMAIN store

\* The last command sent failed with ConnectionError, and what must then be
\* true whichever read it was.
FailedRead(n) == ~ops[n].ok
FailedReadEndsRun(n) ==
  LET k == ops[n].inv
  IN  /\ n = Len(ops)
      /\ Cardinality({m \in 1..Len(ops) :
                        ops[m].inv = k /\ ops[m].key = ops[n].key}) = 1
      /\ pc = "exited"
      /\ raised = "ConnectionError"
      /\ exitStatus = 1
      /\ i = k
      /\ \A m \in 1..Len(out) : out[m].inv <= k

\* C5 as stated: an unreachable store at a read means the read is attempted
\* once, no "Data found" / "No data found" line is printed for that path, the
\* error leaves query_redis and the run ends before any later path is hashed
\* or looked up.
C5_AsStated ==
  \A n \in 1..Len(ops) :
    FailedRead(n) =>
      /\ FailedReadEndsRun(n)
      /\ ~PrimaryReported(ops[n].inv)

\* C5 amended: an unreachable store at a read means the read is attempted
\* once, the line reporting that read is not printed (no "Data found" / "No
\* data found" line when the first read failed; no "File hash" / "No file
\* hash found" line when the second read failed, "Data found" being printed
\* already), the error leaves query_redis and the run ends before any later
\* path is hashed or looked up.
C5_FailedReadEndsRun ==
  \A n \in 1..Len(ops) :
    FailedRead(n) =>
      /\ FailedReadEndsRun(n)
      /\ ops[n].key = PrimaryKeyOf(ops[n].inv) => ~PrimaryReported(ops[n].inv)
      /\ ops[n].key = SecondaryKeyOf(ops[n].inv)
           => /\ HasLine(ops[n].inv, "DataFound")
              /\ ~SecondaryReported(ops[n].inv)

C5_Witness ==
  \E n \in 1..Len(ops) :
    /\ FailedRead(n)
    /\ ops[n].key = SecondaryKeyOf(ops[n].inv)
    /\ ops[n].inv < Len(paths)

\* C6: the store is read-only to the program: no step changes its key set or
\* a stored value, and every command sent is a GET.
C6_StoreReadOnly ==
  /\ [][store' = store]_vars
  /\ [](\A n \in 1..Len(ops) : ops[n].cmd = "GET")

C6_Witness ==
  /\ pc = "exited"
  /\ DOMAIN store # {}
  /\ \E n \in 1..Len(ops) : ops[n].ok /\ ~ops[n].reply.nil
  /\ \E n \in 1..Len(ops) : ~ops[n].ok

\* C7: a call of query_redis(p) issues one or two reads, in sequence: the
\* first for the digest of p; a second only after the first returned a found
\* value, and for "fileHashToPathset:" followed by the same digest.
C7_OneOrTwoReads ==
  \A k \in Calls :
    LET r == OpsOf(k)
    IN  /\ Len(r) <= 2
        /\ PastFirstRead(k) => Len(r) >= 1
        /\ Len(r) >= 1 => r[1].cmd = "GET" /\ r[1].key = PrimaryKeyOf(k)
        /\ Len(r) = 2 =>
             /\ r[1].ok
             /\ ~r[1].reply.nil
             /\ r[2].cmd = "GET"
             /\ r[2].key = "fileHashToPathset:" \o PrimaryKeyOf(k)

C7_Witness ==
  \E k \in Calls : Len(OpsOf(k)) = 2 /\ Returned(k)

\* The position of the n-th command among those of its call.
OpPos(n) == Cardinality({m \in 1..n : ops[m].inv = ops[n].inv})

\* C8: the key is a function of the path alone: two generate_hash calls on
\* the same string, whatever happened in between, return the same key; the
\* call changes nothing but the output, by one line; and two query_redis
\* calls on the same path read the same primary and secondary keys.
C8_KeyIsFunctionOfPath ==
  /\ [](\A a, b \in GeneratedLines :
          out[a].path = out[b].path => out[a].key = out[b].key)
  /\ [](\A m, n \in 1..Len(ops) :
          (paths[ops[m].inv] = paths[ops[n].inv] /\ OpPos(m) = OpPos(n))
            => ops[m].key = ops[n].key)
  /\ [][pc = "hash" =>
          /\ Len(out') = Len(out) + 1
          /\ SubSeq(out', 1, Len(out)) = out
          /\ out'[Len(out')].kind = "Generated"
          /\ out'[Len(out')].path = paths[i]
          /\ out'[Len(out')].key = hashed_key'
          /\ UNCHANGED <<paths, store, i, file_info, file_hash, ops, raised,
                         exitStatus>>]_vars

C8_Witness ==
  \E j, k \in Calls :
    /\ j < k
    /\ paths[j] = paths[k]
    /\ Len(OpsOf(j)) = 2
    /\ Len(OpsOf(k)) = 2

\* Nothing of a call is printed or sent after something of a later call.
Sequential ==
  /\ \A m, n \in 1..Len(out) : m <= n => out[m].inv <= out[n].inv
  /\ \A m, n \in 1..Len(ops) : m <= n => ops[m].inv <= ops[n].inv
  /\ \A n \in 1..Len(out) : out[n].inv <= i /\ out[n].path = paths[out[n].inv]
  /\ \A n \in 1..Len(ops) : ops[n].inv <= i

AllReadsOk == \A n \in 1..Len(ops) : ops[n].ok
SecondaryValuesDecodable ==
  \A k \in Calls :
    SecondaryKeyOf(k) \in DOMAIN store => Decodable(store[SecondaryKeyOf(k)])

\* C9: with the store reachable and every stored secondary value decodable,
\* the run ends with exit status 0 after one query_redis call per entry of
\* the list, in list order, each call over before the next begins, and what a
\* call prints and reads is decided by its path and the store alone.
C9_RunLooksUpEveryPath ==
  /\ <>(pc = "exited")
  /\ []Sequential
  /\ []((pc = "exited" /\ AllReadsOk /\ SecondaryValuesDecodable)
          => /\ exitStatus = 0
             /\ raised = "none"
             /\ \A k \in Calls :
                  /\ Returned(k)
                  /\ Cardinality({n \in GeneratedLines : out[n].inv = k}) = 1
                  /\ Len(OpsOf(k)) \in 1..2
                  /\ OpsOf(k)[1].key = PrimaryKeyOf(k)
                  /\ PrimaryReported(k))
  /\ [](\A j, k \in Calls :
          (Returned(j) /\ Returned(k) /\ paths[j] = paths[k])
            => ShownOf(j) = ShownOf(k) /\ SentOf(j) = SentOf(k))

C9_Witness ==
  /\ pc = "exited"
  /\ exitStatus = 0
  /\ paths = SamplePaths
  /\ Len(ops) > Len(paths)

\* C10: with the primary key present and the secondary value present but not
\* UTF-8, the decoding error is fatal: "Data found" is printed, neither "File
\* hash for" nor "No file hash found" is, and no later path is processed.
C10_UndecodableIsFatal ==
  \A k \in Calls :
    (/\ PrimaryKeyOf(k) \in DOMAIN store
     /\ SecondaryKeyOf(k) \in DOMAIN store
     /\ ~Decodable(store[SecondaryKeyOf(k)]))
      => /\ i <= k
         /\ ~SecondaryReported(k)
         /\ (pc = "exited" /\ i = k /\ AllReadsOk)
              => /\ raised = "UnicodeDecodeError"
                 /\ exitStatus = 1
                 /\ HasLine(k, "DataFound")
====
